---- MODULE Spec2Model ----
(***************************************************************************)
(* Underwriting pipeline of LLM-INSURANCE-AGENT: the ten-stage             *)
(* orchestrator (src/src/pipeline/orchestrator.py), the quote store it     *)
(* writes, and the pure stages (revenue estimation, premium calculation).  *)
(*                                                                         *)
(* Number representation.  Python floats are modelled by exact integers:   *)
(*   - exposures (revenue, payroll, property value) in whole dollars,      *)
(*   - rates in hundredths (base_rate 5.0 is 500, 0.35 is 35),             *)
(*   - premiums in mills (1/1000 dollar), so that round(x, 2) is a real    *)
(*     conversion (Round2) and not the identity.                           *)
(* Optional[T] is the empty set (None) or a singleton {v}.                 *)
(***************************************************************************)
EXTENDS Integers, Sequences, FiniteSets, TLC

VARIABLES
    call,       \* last direct call of a pure stage: [fn, args..., result]
    pc,         \* per worker: position of its process() invocation
    run,        \* per worker: number of the run it is executing (0 = none)
    cur,        \* per worker: locals of process() (result, counters, ...)
    events,     \* per worker: progress-callback invocations of the run
    store,      \* quotes collection: a set of documents
    writeLog,   \* history: replace_one calls that reached the collection
    started,    \* number of runs started so far
    today,      \* current day (datetime.now() date part)
    hist,       \* history, per worker: stage starts, returns and raises
    progress_callback   \* whether the pipeline was built with a callback

vars == <<call, pc, run, cur, events, store, writeLog, started, today, hist,
          progress_callback>>

-----------------------------------------------------------------------------
(* Bounds *)
MaxRates == 2        \* longest rate list handed to the premium calculator
MaxRuns == 2         \* runs started over the life of the model
MaxDay == 2          \* days the clock may reach
NumHex == 2          \* distinct values of uuid4().hex[:8] that are drawn
MaxModifiers == 2    \* longest list of modifiers the LLM returns

-----------------------------------------------------------------------------
(* Optional values and Python truthiness *)
None == {}
Some(v) == {v}
IsNone(o) == o = {}
Val(o) == CHOOSE v \in o : TRUE
\* bool(x) for an Optional number: None and 0 are falsy
Truthy(o) == o # {} /\ Val(o) # 0
\* `x or d` for an Optional number
OrElse(o, d) == IF Truthy(o) THEN Val(o) ELSE d

\* how a call ends: with an exception or with a value
Raised(e) == [raised |-> TRUE, error |-> e]
Returns(v) == [raised |-> FALSE, value |-> v]

Max(a, b) == IF a >= b THEN a ELSE b

RECURSIVE SumSeq(_)
SumSeq(s) == IF s = <<>> THEN 0 ELSE Head(s) + SumSeq(Tail(s))

-----------------------------------------------------------------------------
(* Strings: str.lower() and the `in` substring test *)
LowerChar(c) ==
    CASE c = "A" -> "a" [] c = "B" -> "b" [] c = "C" -> "c" [] c = "D" -> "d"
      [] c = "E" -> "e" [] c = "F" -> "f" [] c = "G" -> "g" [] c = "H" -> "h"
      [] c = "I" -> "i" [] c = "J" -> "j" [] c = "K" -> "k" [] c = "L" -> "l"
      [] c = "M" -> "m" [] c = "N" -> "n" [] c = "O" -> "o" [] c = "P" -> "p"
      [] c = "Q" -> "q" [] c = "R" -> "r" [] c = "S" -> "s" [] c = "T" -> "t"
      [] c = "U" -> "u" [] c = "V" -> "v" [] c = "W" -> "w" [] c = "X" -> "x"
      [] c = "Y" -> "y" [] c = "Z" -> "z" [] OTHER -> c

RECURSIVE Lower(_)
Lower(s) ==
    IF Len(s) = 0 THEN ""
    ELSE LowerChar(SubSeq(s, 1, 1)) \o Lower(SubSeq(s, 2, Len(s)))

\* k in s
Contains(s, k) ==
    \E i \in 1..(Len(s) - Len(k) + 1) : SubSeq(s, i, i + Len(k) - 1) = k

-----------------------------------------------------------------------------
(* round(x, 2) on an amount in mills: nearest cent, ties to even *)
Round2(m) ==
    LET q == m \div 10
        r == m % 10
    IN  IF r < 5 THEN q * 10
        ELSE IF r > 5 THEN (q + 1) * 10
        ELSE IF q % 2 = 0 THEN q * 10 ELSE (q + 1) * 10

-----------------------------------------------------------------------------
(* Step 4: revenue estimation (src/src/pipeline/steps/revenue_estimation.py) *)

\* dict.get(key, default)
DictGet(d, k, default) == IF k \in DOMAIN d THEN d[k] ELSE default

INDUSTRY_REVENUE_PER_EMPLOYEE ==
    [c \in {"11", "21", "22", "23", "44", "31", "42", "44-45", "48", "51",
            "54", "62", "72-2", "81-2"} |->
        CASE c = "11" -> 150000 [] c = "21" -> 500000 [] c = "22" -> 400000
          [] c = "23" -> 180000 [] c = "44" -> 200000 [] c = "31" -> 250000
          [] c = "42" -> 350000 [] c = "44-45" -> 150000 [] c = "48" -> 120000
          [] c = "51" -> 300000 [] c = "54" -> 200000 [] c = "62" -> 180000
          [] c = "72-2" -> 70000 [] c = "81-2" -> 60000]

industry_medians ==
    [c \in {"11", "21", "22", "23", "44", "31", "42", "44-45", "48", "51",
            "54", "62", "72-2", "81-2"} |->
        CASE c = "11" -> 500000 [] c = "21" -> 2000000 [] c = "22" -> 1500000
          [] c = "23" -> 750000 [] c = "44" -> 1500000 [] c = "31" -> 2000000
          [] c = "42" -> 3000000 [] c = "44-45" -> 1000000 [] c = "48" -> 1000000
          [] c = "51" -> 2000000 [] c = "54" -> 750000 [] c = "62" -> 1500000
          [] c = "72-2" -> 500000 [] c = "81-2" -> 250000]

DefaultRevenuePerEmployee == 150000
DefaultIndustryMedian == 1000000

\* the years-in-business steps taken at 10 and 5 instead of above them
EmployeeBasedEstimateInclusive(extracted_email, industry) ==
    LET rev_per_employee == DictGet(INDUSTRY_REVENUE_PER_EMPLOYEE,
                                    industry.bic_code, DefaultRevenuePerEmployee)
        base == Val(extracted_email.employee_count) * rev_per_employee
        yib == extracted_email.years_in_business
        adjusted == IF Truthy(yib)
                    THEN IF Val(yib) >= 10 THEN (base * 12) \div 10
                         ELSE IF Val(yib) >= 5 THEN (base * 11) \div 10
                         ELSE base
                    ELSE base
    IN  [estimated_revenue |-> adjusted,
         estimation_method |-> "employee_count_multiplier",
         confidence_level |-> "MEDIUM",
         requires_verification |-> TRUE]

EmployeeBasedEstimate(extracted_email, industry) ==
    LET rev_per_employee == DictGet(INDUSTRY_REVENUE_PER_EMPLOYEE,
                                    industry.bic_code, DefaultRevenuePerEmployee)
        base == Val(extracted_email.employee_count) * rev_per_employee
        yib == extracted_email.years_in_business
        adjusted == IF Truthy(yib)
                    THEN IF Val(yib) > 10 THEN (base * 12) \div 10
                         ELSE IF Val(yib) > 5 THEN (base * 11) \div 10
                         ELSE base
                    ELSE base
    IN  [estimated_revenue |-> adjusted,
         estimation_method |-> "employee_count_multiplier",
         confidence_level |-> "MEDIUM",
         requires_verification |-> TRUE]

SimpleEstimate(industry) ==
    [estimated_revenue |-> DictGet(industry_medians, industry.bic_code,
                                   DefaultIndustryMedian),
     estimation_method |-> "industry_median",
     confidence_level |-> "LOW",
     requires_verification |-> TRUE]

\* RevenueEstimationStep.execute: Optional[RevenueEstimate]
RevenueEstimationExecute(extracted_email, industry) ==
    IF Truthy(extracted_email.annual_revenue) THEN None
    ELSE IF ~Truthy(extracted_email.employee_count)
         THEN Some(SimpleEstimate(industry))
         ELSE Some(EmployeeBasedEstimate(extracted_email, industry))

-----------------------------------------------------------------------------
(* Step 5: premium calculation (src/src/pipeline/steps/premium_calculation.py) *)

DefaultRevenue == 1000000
PayrollPercent == 35        \* estimated_payroll = revenue * 0.35

Exposures(extracted_email, revenue_estimate) ==
    LET revenue ==
            IF ~IsNone(extracted_email.annual_revenue)
            THEN Val(extracted_email.annual_revenue)
            ELSE IF ~IsNone(revenue_estimate)
                 THEN Val(revenue_estimate).estimated_revenue
                 ELSE DefaultRevenue
    IN  [revenue |-> revenue,
         payroll |-> (revenue * PayrollPercent) \div 100,
         property_value |-> OrElse(extracted_email.property_value, 0),
         vehicle_count |-> OrElse(extracted_email.vehicle_count, 0)]

\* a plausible slip: the "100" test placed before the "1000" test
BasisBranchPayrollFirst(rate_basis) ==
    IF Contains(rate_basis, "payroll") \/ Contains(rate_basis, "100")
    THEN "payroll"
    ELSE IF Contains(rate_basis, "revenue") \/ Contains(rate_basis, "1000")
    THEN "revenue"
    ELSE IF Contains(rate_basis, "vehicle") THEN "vehicle"
    ELSE IF \/ Contains(rate_basis, "tiv")
            \/ Contains(rate_basis, "percent")
            \/ Contains(rate_basis, "property")
    THEN "tiv"
    ELSE "default"

\* the if/elif chain of _calculate_line_item on the lower-cased basis
BasisBranch(rate_basis) ==
    IF Contains(rate_basis, "revenue") \/ Contains(rate_basis, "1000")
    THEN "revenue"
    ELSE IF Contains(rate_basis, "payroll") \/ Contains(rate_basis, "100")
    THEN "payroll"
    ELSE IF Contains(rate_basis, "vehicle") THEN "vehicle"
    ELSE IF \/ Contains(rate_basis, "tiv")
            \/ Contains(rate_basis, "percent")
            \/ Contains(rate_basis, "property")
    THEN "tiv"
    ELSE "default"

ExposureValue(rate, exposures) ==
    LET branch == BasisBranch(Lower(rate.rate_basis))
    IN  CASE branch = "revenue" -> exposures.revenue
          [] branch = "payroll" -> exposures.payroll
          [] branch = "vehicle" -> exposures.vehicle_count
          [] branch = "tiv" -> exposures.property_value
          [] OTHER -> exposures.revenue

\* `multiplier`, times 1000
MultiplierM(rate, exposures) ==
    LET branch == BasisBranch(Lower(rate.rate_basis))
        exposure_value == ExposureValue(rate, exposures)
    IN  CASE branch = "revenue" -> exposure_value
          [] branch = "payroll" -> exposure_value * 10
          [] branch = "vehicle" -> exposure_value * 1000
          [] branch = "tiv" -> (exposure_value * rate.base_rate) \div 10
          [] OTHER -> exposure_value

\* calculated_premium in mills (lines 102-105)
CalculatedPremium(rate, exposures) ==
    LET percent == Contains(Lower(rate.rate_basis), "percent")
        first == IF ~percent
                 THEN (rate.base_rate * MultiplierM(rate, exposures)) \div 100
                 ELSE MultiplierM(rate, exposures)
    IN  IF percent
        THEN (exposures.property_value * rate.base_rate) \div 10
        ELSE first

NoteTemplate(rate) ==
    LET branch == BasisBranch(Lower(rate.rate_basis))
    IN  CASE branch = "revenue" -> "$ revenue / 1000 * $"
          [] branch = "payroll" -> "$ payroll / 100 * $"
          [] branch = "vehicle" -> " vehicles * $ per vehicle"
          [] branch = "tiv" -> "$ property value * %"
          [] OTHER -> "Default revenue-based calculation"

MinimumNote == " (minimum premium applied)"

\* a plausible slip: the minimum is applied but the note is never extended
CalculateLineItemSilent(rate, exposures) ==
    LET calculated_premium == CalculatedPremium(rate, exposures)
        final_premium == Max(calculated_premium, rate.minimum_premium)
    IN  [coverage_type |-> rate.coverage_type,
         base_premium |-> Round2(final_premium),
         rate_used |-> rate.base_rate,
         rate_basis |-> rate.rate_basis,
         exposure_value |-> ExposureValue(rate, exposures),
         calculation_notes |-> <<NoteTemplate(rate)>>]

\* PremiumCalculationStep._calculate_line_item
CalculateLineItem(rate, exposures) ==
    LET calculated_premium == CalculatedPremium(rate, exposures)
        final_premium == Max(calculated_premium, rate.minimum_premium)
        notes == <<NoteTemplate(rate)>>
    IN  [coverage_type |-> rate.coverage_type,
         base_premium |-> Round2(final_premium),
         rate_used |-> rate.base_rate,
         rate_basis |-> rate.rate_basis,
         exposure_value |-> ExposureValue(rate, exposures),
         calculation_notes |->
            IF /\ final_premium = rate.minimum_premium
               /\ calculated_premium < rate.minimum_premium
            THEN Append(notes, MinimumNote)
            ELSE notes]

\* PremiumCalculationStep.execute
PremiumCalculationExecute(extracted_email, rates, revenue_estimate) ==
    LET exposures == Exposures(extracted_email, revenue_estimate)
        line_items == [i \in 1..Len(rates) |->
                          CalculateLineItem(rates[i], exposures)]
    IN  [line_items |-> line_items,
         total_base_premium |->
            SumSeq([i \in 1..Len(line_items) |-> line_items[i].base_premium])]

-----------------------------------------------------------------------------
(* Step 3: default rates (src/src/pipeline/steps/rate_discovery.py) *)

RateInfo(bic, cov, rate, basis, minimum) ==
    [bic_code |-> bic, coverage_type |-> cov, base_rate |-> rate,
     rate_basis |-> basis, minimum_premium |-> minimum]

\* RateDiscoveryStep._get_default_rates
GetDefaultRates(extracted_email, industry) ==
    <<RateInfo(industry.bic_code, "general_liability", 500,
               "per_1000_revenue", 1500000)>>
    \o (IF Truthy(extracted_email.property_value)
        THEN <<RateInfo(industry.bic_code, "property", 35,
                        "percent_of_tiv", 1000000)>>
        ELSE <<>>)
    \o (IF Truthy(extracted_email.vehicle_count)
        THEN <<RateInfo(industry.bic_code, "auto_liability", 75000,
                        "per_vehicle", 1500000)>>
        ELSE <<>>)

\* `x or d` for an Optional string: None and "" are falsy
OrElseStr(o, d) == IF o # None /\ Val(o) # "" THEN Val(o) ELSE d

\* "Parse rate info": one RateInfo per row of the LLM response, a key of a
\* row being absent (None) or present
ParseRateRows(rate_items, industry) ==
    [i \in 1..Len(rate_items) |->
        RateInfo(OrElseStr(rate_items[i].bic_code, industry.bic_code),
                 OrElseStr(rate_items[i].coverage_type, "unknown"),
                 OrElse(rate_items[i].base_rate, 0),
                 OrElseStr(rate_items[i].rate_basis, "per_1000_revenue"),
                 OrElse(rate_items[i].minimum_premium, 1000000))]

\* RateDiscoveryStep.execute, from the rows parsed out of the LLM response
RateDiscoveryExecute(extracted_email, industry, llm_rates) ==
    IF llm_rates = <<>> THEN GetDefaultRates(extracted_email, industry)
    ELSE llm_rates

-----------------------------------------------------------------------------
(* Step 6: modifiers (src/src/pipeline/steps/modifiers.py) *)

\* round(x, 4) on a fraction in units of 1/100000
Round4(v) == Round2(v)

\* the adjusted premium re-derived from the base and the fraction sum
ModifiersExecuteFromPercentage(premium_calc, modifiers) ==
    LET total_impact ==
            SumSeq([i \in 1..Len(modifiers) |-> modifiers[i].premium_impact])
        total_percentage ==
            SumSeq([i \in 1..Len(modifiers) |-> modifiers[i].modifier_value])
        adjusted_premium ==
            premium_calc.total_base_premium
            + ((premium_calc.total_base_premium \div 1000) * total_percentage)
                  \div 100
    IN  [modifiers_applied |-> modifiers,
         total_modifier_impact |-> Round2(total_impact),
         total_modifier_percentage |-> Round4(total_percentage),
         adjusted_premium |-> Round2(adjusted_premium)]

\* ModifiersStep.execute, from the modifiers parsed out of the LLM response
ModifiersExecute(premium_calc, modifiers) ==
    LET total_impact ==
            SumSeq([i \in 1..Len(modifiers) |-> modifiers[i].premium_impact])
        total_percentage ==
            SumSeq([i \in 1..Len(modifiers) |-> modifiers[i].modifier_value])
        adjusted_premium == premium_calc.total_base_premium + total_impact
    IN  [modifiers_applied |-> modifiers,
         total_modifier_impact |-> Round2(total_impact),
         total_modifier_percentage |-> Round4(total_percentage),
         adjusted_premium |-> Round2(adjusted_premium)]

-----------------------------------------------------------------------------
(* Step 7: authority check (src/src/pipeline/steps/authority_check.py) *)

STANDARD_MAX_PREMIUM == 50000
SENIOR_MAX_PREMIUM == 150000
MANAGEMENT_MAX_PREMIUM == 500000

LossKeywords == {"multiple", "several", "frequent", "large", "major"}

\* the premium tiers with the boundaries pushed into the upper tier
BaseAuthorityLevelStrict(premium) ==
    IF premium < STANDARD_MAX_PREMIUM * 1000 THEN "standard"
    ELSE IF premium < SENIOR_MAX_PREMIUM * 1000 THEN "senior"
    ELSE IF premium < MANAGEMENT_MAX_PREMIUM * 1000 THEN "management"
    ELSE "reinsurance"

\* "Determine base authority level from premium" (premium in mills)
BaseAuthorityLevel(premium) ==
    IF premium <= STANDARD_MAX_PREMIUM * 1000 THEN "standard"
    ELSE IF premium <= SENIOR_MAX_PREMIUM * 1000 THEN "senior"
    ELSE IF premium <= MANAGEMENT_MAX_PREMIUM * 1000 THEN "management"
    ELSE "reinsurance"

\* the high-risk rule raising whatever level it meets by one tier
HighRiskLevelAlwaysBump(level, high) ==
    IF ~high THEN level
    ELSE IF level = "standard" THEN "senior"
    ELSE IF level = "senior" THEN "management"
    ELSE "reinsurance"

\* "Check for high-risk industry": the level after the rule
HighRiskLevel(level, high) ==
    IF high /\ level = "standard" THEN "senior" ELSE level

\* the loss-history rule without its guard on the current level
LossHistoryLevelUnguarded(level, adverse) ==
    IF adverse
    THEN IF level = "senior" THEN "management" ELSE "senior"
    ELSE level

\* "Check loss history": the level after the keyword rule
LossHistoryLevel(level, adverse) ==
    IF adverse /\ level \in {"standard", "senior"}
    THEN IF level = "senior" THEN "management" ELSE "senior"
    ELSE level

\* auto-bind decided from the level alone
AutoBindEligibleLevelOnly(level, risk_category, referral_reasons) ==
    /\ level = "standard"
    /\ risk_category # "HIGH"

\* auto_bind_eligible
AutoBindEligible(level, risk_category, referral_reasons) ==
    /\ level = "standard"
    /\ risk_category # "HIGH"
    /\ Len(referral_reasons) = 0

\* AuthorityCheckStep.execute
AuthorityCheckExecute(extracted_email, industry, modifier_result) ==
    LET premium == modifier_result.adjusted_premium
        level0 == BaseAuthorityLevel(premium)
        reasons0 ==
            CASE level0 = "standard" -> <<>>
              [] level0 = "senior" -> <<"Premium exceeds standard authority">>
              [] level0 = "management" -> <<"Premium requires management approval">>
              [] OTHER -> <<"Premium exceeds treaty limits">>
        high == industry.risk_category = "HIGH"
        level1 == HighRiskLevel(level0, high)
        reasons1 == IF high THEN Append(reasons0, "High-risk industry")
                    ELSE reasons0
        loss == extracted_email.loss_history
        adverse ==
            /\ loss # None
            /\ Val(loss) # ""
            /\ \E word \in LossKeywords : Contains(Lower(Val(loss)), word)
        level2 == LossHistoryLevel(level1, adverse)
        reasons2 == IF adverse
                    THEN Append(reasons1, "Adverse loss history requires review")
                    ELSE reasons1
        yib == extracted_email.years_in_business
        reasons3 == IF Truthy(yib) /\ Val(yib) < 2
                    THEN Append(reasons2,
                                "New venture - less than 2 years in business")
                    ELSE reasons2
    IN  [authority_level |-> level2,
         requires_approval |-> level2 # "standard",
         approval_reason |-> IF reasons3 # <<>> THEN Some(reasons3) ELSE None,
         approver_role |->
            CASE level2 = "senior" -> Some("Senior Underwriter")
              [] level2 = "management" -> Some("Underwriting Manager")
              [] level2 = "reinsurance" -> Some("Reinsurance Team")
              [] OTHER -> None,
         auto_bind_eligible |->
            AutoBindEligible(level2, industry.risk_category, reasons3),
         referral_reasons |-> reasons3]

-----------------------------------------------------------------------------
(* Step 1: number parsing (src/src/pipeline/steps/email_parser.py). Amounts
   are in cents. *)

\* str.replace(c, "")
RECURSIVE RemoveChar(_, _)
RemoveChar(s, c) ==
    IF Len(s) = 0 THEN ""
    ELSE (IF SubSeq(s, 1, 1) = c THEN "" ELSE SubSeq(s, 1, 1))
         \o RemoveChar(SubSeq(s, 2, Len(s)), c)

\* str.strip()
RECURSIVE StrStrip(_)
StrStrip(s) ==
    IF Len(s) = 0 THEN ""
    ELSE IF SubSeq(s, 1, 1) = " " THEN StrStrip(SubSeq(s, 2, Len(s)))
    ELSE IF SubSeq(s, Len(s), Len(s)) = " "
         THEN StrStrip(SubSeq(s, 1, Len(s) - 1))
    ELSE s

\* cleaned.upper().endswith(c), c an upper-case letter
UpperEndsWith(s, c) ==
    Len(s) > 0 /\ SubSeq(s, Len(s), Len(s)) \in {c, LowerChar(c)}

Digits == {"0", "1", "2", "3", "4", "5", "6", "7", "8", "9"}

DigitVal(c) ==
    CASE c = "0" -> 0 [] c = "1" -> 1 [] c = "2" -> 2 [] c = "3" -> 3
      [] c = "4" -> 4 [] c = "5" -> 5 [] c = "6" -> 6 [] c = "7" -> 7
      [] c = "8" -> 8 [] c = "9" -> 9

RECURSIVE DigitsToInt(_)
DigitsToInt(s) ==
    IF Len(s) = 0 THEN 0
    ELSE DigitsToInt(SubSeq(s, 1, Len(s) - 1)) * 10
         + DigitVal(SubSeq(s, Len(s), Len(s)))

\* position of the first "." of s, or Len(s) + 1
RECURSIVE DotAt(_)
DotAt(s) ==
    IF Len(s) = 0 \/ SubSeq(s, 1, 1) = "." THEN 1
    ELSE 1 + DotAt(SubSeq(s, 2, Len(s)))

\* float(s) for decimal literals (no exponent, inf or nan): Raised on what
\* float() rejects with ValueError, else the value in hundredths
Float(s) ==
    LET t == StrStrip(s)
        signed == Len(t) > 0 /\ SubSeq(t, 1, 1) \in {"-", "+"}
        body == IF signed THEN SubSeq(t, 2, Len(t)) ELSE t
        dot == DotAt(body)
        whole == SubSeq(body, 1, dot - 1)
        frac == SubSeq(body, dot + 1, Len(body))
        wellFormed ==
            /\ \A i \in 1..Len(whole) : SubSeq(whole, i, i) \in Digits
            /\ \A i \in 1..Len(frac) : SubSeq(frac, i, i) \in Digits
            /\ Len(whole) + Len(frac) > 0
        cents == DigitsToInt(SubSeq(frac \o "00", 1, 2))
        magnitude == DigitsToInt(whole) * 100 + cents
    IN  IF ~wellFormed THEN Raised("ValueError")
        ELSE Returns(IF signed /\ SubSeq(t, 1, 1) = "-"
                     THEN 0 - magnitude ELSE magnitude)

\* EmailParserStep._parse_number; value is a JSON value: null, a number (in
\* cents), a string, or something else (a list, an object)
ParseNumber(value) ==
    CASE value.kind = "null" -> Returns(None)
      [] value.kind = "number" -> Returns(Some(value.num))
      [] value.kind = "string" ->
            LET cleaned == StrStrip(RemoveChar(RemoveChar(value.str, "$"), ","))
                prefix == Float(SubSeq(cleaned, 1, Len(cleaned) - 1))
                plain == Float(cleaned)
            IN  IF UpperEndsWith(cleaned, "M")
                THEN IF prefix.raised THEN prefix
                     ELSE Returns(Some(prefix.value * 1000000))
                ELSE IF UpperEndsWith(cleaned, "K")
                THEN IF prefix.raised THEN prefix
                     ELSE Returns(Some(prefix.value * 1000))
                ELSE IF plain.raised THEN Returns(None)
                ELSE Returns(Some(plain.value))
      [] OTHER -> Returns(None)

-----------------------------------------------------------------------------
(* LLM client (src/src/core/fireworks_client.py) and step 2: industry
   classifier (src/src/pipeline/steps/industry_classifier.py) *)

\* @retry(stop=stop_after_attempt(5), ...)
StopAfterAttempt == 5

\* a plausible slip: no stop condition, the call is repeated as long as the
\* service answers
LastAttemptUnbounded(outcomes) ==
    CHOOSE n \in 1..Len(outcomes) :
        /\ outcomes[n].kind = "ok" \/ n = Len(outcomes)
        /\ \A i \in 1..(n - 1) : outcomes[i].kind # "ok"

\* the attempt after which the retry loop stops: the first one that returns,
\* or the fifth. outcomes[i] is what the i-th execution of the decorated
\* body would meet.
LastAttempt(outcomes) ==
    CHOOSE n \in 1..StopAfterAttempt :
        /\ outcomes[n].kind = "ok" \/ n = StopAfterAttempt
        /\ \A i \in 1..(n - 1) : outcomes[i].kind # "ok"

\* the decorated generate_json: every attempt sends one chat-completions
\* request (lines 150-156); the value of the attempt that returns is the
\* value of the call, and when the last attempt fails the decorator, which
\* has no reraise, raises RetryError
Retrying(outcomes) ==
    LET n == LastAttempt(outcomes)
    IN  IF outcomes[n].kind = "ok"
        THEN [raised |-> FALSE, value |-> outcomes[n].value, requests |-> n]
        ELSE [raised |-> TRUE, error |-> "RetryError", requests |-> n]

\* FireworksClient.generate_json under its retry decorator. attempts[i] is
\* what the i-th attempt meets: "ok" (the completion is the JSON document
\* response), "bad_json" (json.loads raises on the completion) or "api_error"
\* (the request raises). The decorator has no reraise, so the last failure
\* leaves as a RetryError.
GenerateJson(attempts, response) ==
    LET r == Retrying([i \in 1..Len(attempts) |->
                          [kind |-> attempts[i], value |-> response]])
    IN  IF r.raised THEN Raised(r.error) ELSE Returns(r.value)

\* dict.get(key, default) on a key that is absent (None) or present
Get(field, default) == IF field = None THEN default ELSE Val(field)

\* IndustryClassifierStep.execute (confidence_score in hundredths)
IndustryClassifierExecute(attempts, response) ==
    LET result == GenerateJson(attempts, response)
    IN  IF result.raised THEN result
        ELSE Returns([bic_code |-> Get(result.value.bic_code, "99"),
                      risk_category |->
                          Get(result.value.risk_category, "MEDIUM"),
                      confidence_score |->
                          Get(result.value.confidence_score, 50)])

-----------------------------------------------------------------------------
(* Step 10: the dates of the quote (src/src/pipeline/steps/quote_generation.py) *)

Date(y, m, d) == [year |-> y, month |-> m, day |-> d]

IsLeap(y) == y % 4 = 0 /\ (y % 100 # 0 \/ y % 400 = 0)

DaysInMonth(y, m) ==
    IF m = 2 THEN (IF IsLeap(y) THEN 29 ELSE 28)
    ELSE IF m \in {4, 6, 9, 11} THEN 30
    ELSE 31

RECURSIVE DaysBeforeMonth(_, _)
DaysBeforeMonth(y, m) ==
    IF m = 1 THEN 0 ELSE DaysBeforeMonth(y, m - 1) + DaysInMonth(y, m - 1)

\* date.toordinal(): days since 0001-01-01, that day being 1
ToOrdinal(date) ==
    LET y == date.year - 1
    IN  y * 365 + y \div 4 - y \div 100 + y \div 400
        + DaysBeforeMonth(date.year, date.month) + date.day

\* date + timedelta(days=n), for 0 <= n <= 366
AddDays(date, n) ==
    CHOOSE later \in {Date(y, m, d) : y \in {date.year, date.year + 1},
                                      m \in 1..12, d \in 1..31} :
        /\ later.day <= DaysInMonth(later.year, later.month)
        /\ ToOrdinal(later) = ToOrdinal(date) + n

\* date.replace(day=1)
FirstOfMonth(date) == Date(date.year, date.month, 1)

\* strftime("%Y-%m-%d"): a text that strptime("%Y-%m-%d") reads back
IsoText(date) == [iso |-> TRUE, date |-> date]
\* any other text of the email, e.g. "January 1st"
FreeText(text) == [iso |-> FALSE, text |-> text]

\* "Default to first of next month"
DefaultEffectiveDate(now) ==
    IF now.day > 15
    THEN IsoText(FirstOfMonth(AddDays(FirstOfMonth(now), 32)))
    ELSE IsoText(FirstOfMonth(now))

\* "Determine dates": effective_date is the Optional text of the email ("" is
\* falsy), now is datetime.now()
QuoteDates(effective_date, now) ==
    LET effective == IF effective_date = None \/ Val(effective_date) = FreeText("")
                     THEN DefaultEffectiveDate(now)
                     ELSE Val(effective_date)
    IN  [effective_date |-> Some(effective),
         expiration_date |->
            IF effective.iso THEN Some(IsoText(AddDays(effective.date, 365)))
            ELSE None,
         quote_valid_until |-> IsoText(AddDays(now, 30))]

-----------------------------------------------------------------------------
(* Entry points (src/src/api/schemas.py, src/src/api/routes.py,
   src/cli/process_quote.py) *)

\* QuoteRequest.email_content: Field(..., min_length=50)
MIN_LENGTH == 50

\* how an entry point ends: with a rejection (HTTP status or exit code) before
\* the pipeline is built, or with UnderwritingPipeline().process(email)
Rejected(code) == [rejected |-> TRUE, code |-> code]
Processed(email_content) == [rejected |-> FALSE, email_content |-> email_content]

\* str.endswith(suffix)
EndsWith(s, suffix) ==
    Len(s) >= Len(suffix)
    /\ SubSeq(s, Len(s) - Len(suffix) + 1, Len(s)) = suffix

\* POST /api/quotes/process: the body is validated as a QuoteRequest
ProcessQuote(email_content) ==
    IF Len(email_content) < MIN_LENGTH THEN Rejected(422)
    ELSE Processed(email_content)

\* POST /api/quotes/process-file
ProcessQuoteFile(filename, email_content) ==
    IF ~(EndsWith(filename, ".txt") \/ EndsWith(filename, ".eml"))
    THEN Rejected(400)
    ELSE Processed(email_content)

\* cli.process_quote.main with the content of --text, the file or stdin
CliMain(email_content) ==
    IF email_content = "" \/ Len(StrStrip(email_content)) < 50
    THEN Rejected(1)
    ELSE Processed(email_content)

-----------------------------------------------------------------------------
(* Input domains *)

ExtractedEmail(rev, emp, yib, veh, prop, loss) ==
    [annual_revenue |-> rev, employee_count |-> emp, years_in_business |-> yib,
     vehicle_count |-> veh, property_value |-> prop, loss_history |-> loss,
     raw_email |-> "email"]

Industry(bic, risk) == [bic_code |-> bic, risk_category |-> risk]

Industries == {Industry("54", "MEDIUM"), Industry("48", "HIGH"),
               Industry("99", "LOW")}

\* profiles handed to the revenue estimator
EstimateProfiles ==
    {ExtractedEmail(rev, emp, yib, None, None, None) :
        rev \in {None, {0}, {100000}},
        emp \in {None, {0}, {5}},
        yib \in {None, {0}, {3}, {5}, {6}, {8}, {10}, {11}, {12}}}

\* profiles handed to the premium calculator
PremiumProfiles ==
    {ExtractedEmail(rev, emp, None, veh, prop, None) :
        rev \in {None, {0}, {100000}, {123400}, {1000000}},
        emp \in {None, {5}},
        veh \in {None, {10}},
        prop \in {None, {500000}, {123456}}}

\* rate rows: base_rate in hundredths, minimum_premium in mills
RateSet ==
    {RateInfo("54", "general_liability", 500, "per_1000_revenue", 1000000),
     RateInfo("54", "general_liability", 503, "per_1000_revenue", 1500000),
     RateInfo("48", "auto_liability", 75000, "per_vehicle", 1500000),
     RateInfo("53", "property", 50, "percent_of_tiv", 1000000),
     RateInfo("53", "property", 35, "percent_of_tiv", 250000),
     RateInfo("54", "workers_comp", 120, "per_100_payroll", 400000),
     RateInfo("54", "cyber", 503, "flat_fee", 500000),
     RateInfo("48", "auto_liability", 75000, "PER_VEHICLE", 9000000)}

\* profiles handed to the authority check
AuthorityProfiles ==
    {ExtractedEmail(None, None, yib, None, None, loss) :
        yib \in {None, {0}, {1}, {3}},
        loss \in {None, {""}, {"No claims in five years"},
                  {"Multiple claims in 2022"}, {"One LARGE claim"}}}

\* adjusted premiums (mills) at and around each authority threshold
AuthorityPremiums ==
    {0, 49999990, 50000000, 50000010, 149999990, 150000000, 150000010,
     499999990, 500000000, 500000010}

ModifierResult(adjusted) ==
    [modifiers_applied |-> <<>>, total_modifier_impact |-> 0,
     total_modifier_percentage |-> 0, adjusted_premium |-> adjusted]

ModifierDetail(name, value, impact) ==
    [modifier_name |-> name, modifier_type |-> "experience",
     modifier_value |-> value, reason |-> "", premium_impact |-> impact]

\* modifiers as the LLM lists them: modifier_value in 1/100000, premium_impact
\* in mills, not necessarily value times base and not necessarily whole cents
ModifierSet ==
    {ModifierDetail("Experience credit", -10000, -500000),
     ModifierDetail("Fleet surcharge", 5000, 250000),
     ModifierDetail("Loss surcharge", 15000, 0),
     ModifierDetail("Schedule credit", -2500, -123456),
     ModifierDetail("Safety credit", 0, 125)}

\* premium calculations handed to the modifier stage (totals in mills)
ModifierBases ==
    {[line_items |-> <<>>, total_base_premium |-> b] : b \in {5000000, 1500250}}

\* what the five attempts of one generate_json call may meet: n failures of
\* one kind, then successes
AttemptSeqs ==
    {[i \in 1..StopAfterAttempt |-> IF i <= n THEN f ELSE "ok"] :
        n \in 0..StopAfterAttempt, f \in {"bad_json", "api_error"}}

\* what successive executions of the body of generate_json would meet, one
\* more than the decorator allows: n failures of one kind, then completions
\* that parse, each to a different object
OutcomeSeqs ==
    {[i \in 1..(StopAfterAttempt + 1) |->
        IF i <= n THEN [kind |-> f, value |-> 0] ELSE [kind |-> "ok", value |-> i]] :
        n \in 0..(StopAfterAttempt + 1), f \in {"bad_json", "api_error"}}

\* JSON objects the LLM may answer the classifier prompt with; a key that is
\* left out is None
ClassifierResponses ==
    {[bic_code |-> b, risk_category |-> r, confidence_score |-> c] :
        b \in {None, {"23"}},
        r \in {None, {"LOW"}, {"HIGH"}, {"high"}, {"Moderate"}},
        c \in {None, {85}, {100}, {8500}}}

\* profiles handed to rate discovery
RateProfiles ==
    {ExtractedEmail({100000}, None, None, veh, prop, None) :
        veh \in {None, {0}, {10}},
        prop \in {None, {0}, {500000}}}

RateRow(bic, cov, rate, basis, minimum) ==
    [bic_code |-> bic, coverage_type |-> cov, base_rate |-> rate,
     rate_basis |-> basis, minimum_premium |-> minimum]

\* the rate_info list of the LLM response
RateItemLists ==
    {<<>>,
     <<RateRow({"23"}, {"general_liability"}, {650}, {"per_1000_revenue"},
               {2500000})>>,
     <<RateRow(None, None, None, None, None)>>,
     <<RateRow({""}, {"property"}, {0}, {""}, {0}),
       RateRow({"23"}, {"auto_liability"}, {90000}, {"per_vehicle"}, None)>>}

\* values the LLM may put under annual_revenue or property_value
ParseInputs ==
    {[kind |-> "null"], [kind |-> "other"],
     [kind |-> "number", num |-> 0], [kind |-> "number", num |-> 123456]}
    \cup
    {[kind |-> "string", str |-> v] :
        v \in {"$15M", "250K", "1.5m", "1,000,000", " 500000 ", "1234.56",
               "-3", "", "N/A", "unknown", "5 million", "about 5M", "$2.5 MM",
               "OK", "M", "TBD k"}}

RECURSIVE Repeat(_, _)
Repeat(c, n) == IF n = 0 THEN "" ELSE c \o Repeat(c, n - 1)

\* email texts of length 0, 9, 49, 50, 51 and one of length 51 that strips
\* to 49
EmailContents ==
    {Repeat("x", n) : n \in {0, 9, 49, 50, 51}}
    \cup {" " \o Repeat("x", 49) \o " "}

Filenames == {"email.txt", "email.eml", "email.pdf"}

\* profiles run through steps 3 to 5
RevenueProfiles ==
    {ExtractedEmail(rev, emp, None, None, None, None) :
        rev \in {None, {0}, {100000}, {750000}},
        emp \in {None, {0}, {5}}}

\* issuance dates around the middle and the end of a month and of a year
IssuanceDates ==
    {Date(2024, 1, 1), Date(2024, 1, 15), Date(2024, 1, 16), Date(2024, 1, 31),
     Date(2024, 2, 29), Date(2024, 11, 30), Date(2024, 12, 15),
     Date(2024, 12, 16), Date(2025, 2, 14)}

\* effective_date as the LLM extracts it from the email
EffectiveDates ==
    {None, Some(FreeText("")), Some(FreeText("January 1st")),
     Some(IsoText(Date(2024, 3, 1))), Some(IsoText(Date(2025, 7, 1)))}

RECURSIVE SeqsUpTo(_, _)
SeqsUpTo(S, n) ==
    IF n = 0 THEN {<<>>}
    ELSE LET shorter == SeqsUpTo(S, n - 1)
         IN  shorter \cup {Append(q, x) : q \in shorter, x \in S}

RateLists == SeqsUpTo(RateSet, MaxRates)

\* rate rows whose basis matches the keyword of more than one branch, or
\* the insured-value branch without the word percent
OverlapRates ==
    {RateInfo("53", "property", 50, "property_value", 250000),
     RateInfo("53", "property", 35, "tiv", 250000),
     RateInfo("54", "general_liability", 50, "percent_of_revenue", 250000),
     RateInfo("54", "workers_comp", 120, "percent_of_payroll", 250000),
     RateInfo("53", "property", 50, "Percent of Property Value", 250000)}

ModifierLists == SeqsUpTo(ModifierSet, MaxModifiers)

-----------------------------------------------------------------------------
(* Direct calls of the pure stages *)

NoCall == [fn |-> "none", done |-> FALSE]

\* the calls a test or a caller may make, before they are evaluated
PendingCalls ==
    {[fn |-> "estimate", done |-> FALSE, extracted_email |-> p, industry |-> ind] :
        p \in EstimateProfiles, ind \in Industries}
    \cup
    UNION {{[fn |-> "premium", done |-> FALSE, extracted_email |-> p,
             rates |-> rates, revenue_estimate |-> est] :
               est \in {None, RevenueEstimationExecute(p, Industry("54", "MEDIUM"))}} :
            p \in PremiumProfiles, rates \in RateLists}
    \cup
    {[fn |-> "generate_json", done |-> FALSE, outcomes |-> o] : o \in OutcomeSeqs}
    \cup
    {[fn |-> "line_item", done |-> FALSE, rate |-> rate,
      exposures |-> Exposures(p, None)] :
        p \in PremiumProfiles, rate \in RateSet \cup OverlapRates}
    \cup
    {[fn |-> "authority", done |-> FALSE, extracted_email |-> p,
      industry |-> ind, modifier_result |-> ModifierResult(a)] :
        p \in AuthorityProfiles, ind \in Industries, a \in AuthorityPremiums}
    \cup
    {[fn |-> "modifiers", done |-> FALSE, premium_calc |-> b, modifiers |-> m] :
        b \in ModifierBases, m \in ModifierLists}
    \cup
    {[fn |-> "classify", done |-> FALSE, attempts |-> a, response |-> resp] :
        a \in AttemptSeqs, resp \in ClassifierResponses}
    \cup
    {[fn |-> "parse_number", done |-> FALSE, value |-> v] : v \in ParseInputs}
    \cup
    {[fn |-> "quote_dates", done |-> FALSE, effective_date |-> e, now |-> t] :
        e \in EffectiveDates, t \in IssuanceDates}
    \cup
    {[fn |-> "revenue_and_premium", done |-> FALSE, extracted_email |-> p,
      industry |-> ind, rates |-> GetDefaultRates(p, ind)] :
        p \in RevenueProfiles, ind \in Industries}
    \cup
    {[fn |-> f, done |-> FALSE, filename |-> "", email_content |-> e] :
        f \in {"process_quote", "cli_main"}, e \in EmailContents}
    \cup
    {[fn |-> "process_quote_file", done |-> FALSE, filename |-> n,
      email_content |-> e] : n \in Filenames, e \in EmailContents}
    \cup
    {[fn |-> "rates", done |-> FALSE, extracted_email |-> p, industry |-> ind,
      rate_items |-> items] :
        p \in RateProfiles, ind \in Industries, items \in RateItemLists}

CallEstimate ==
    /\ call.fn = "estimate" /\ ~call.done
    /\ call' = [fn |-> "estimate", done |-> TRUE,
                extracted_email |-> call.extracted_email,
                industry |-> call.industry,
                result |-> RevenueEstimationExecute(call.extracted_email,
                                                    call.industry)]
    /\ UNCHANGED <<pc, run, cur, events, store, writeLog, started, today, hist,
                   progress_callback>>

CallGenerateJson ==
    /\ call.fn = "generate_json" /\ ~call.done
    /\ call' = [fn |-> "generate_json", done |-> TRUE, outcomes |-> call.outcomes,
                result |-> Retrying(call.outcomes)]
    /\ UNCHANGED <<pc, run, cur, events, store, writeLog, started, today, hist,
                   progress_callback>>

CallLineItem ==
    /\ call.fn = "line_item" /\ ~call.done
    /\ call' = [fn |-> "line_item", done |-> TRUE, rate |-> call.rate,
                exposures |-> call.exposures,
                result |-> CalculateLineItem(call.rate, call.exposures)]
    /\ UNCHANGED <<pc, run, cur, events, store, writeLog, started, today, hist,
                   progress_callback>>

CallPremium ==
    /\ call.fn = "premium" /\ ~call.done
    /\ call' = [fn |-> "premium", done |-> TRUE,
                extracted_email |-> call.extracted_email,
                rates |-> call.rates,
                revenue_estimate |-> call.revenue_estimate,
                result |-> PremiumCalculationExecute(call.extracted_email,
                                                     call.rates,
                                                     call.revenue_estimate)]
    /\ UNCHANGED <<pc, run, cur, events, store, writeLog, started, today, hist,
                   progress_callback>>

-----------------------------------------------------------------------------
(* The orchestrator (src/src/pipeline/orchestrator.py) *)

Workers == {"w1", "w2"}
NumStages == 10

StepKey(k) ==
    CASE k = 1 -> "email_parser" [] k = 2 -> "industry_classifier"
      [] k = 3 -> "rate_discovery" [] k = 4 -> "revenue_estimation"
      [] k = 5 -> "premium_calculation" [] k = 6 -> "modifiers"
      [] k = 7 -> "authority_check" [] k = 8 -> "coverage_analysis"
      [] k = 9 -> "risk_assessment" [] OTHER -> "quote_generation"

StepName(k) ==
    CASE k = 1 -> "Email Parser" [] k = 2 -> "Industry Classifier"
      [] k = 3 -> "Rate Discovery" [] k = 4 -> "Revenue Estimation"
      [] k = 5 -> "Premium Calculation" [] k = 6 -> "Modifiers"
      [] k = 7 -> "Authority Check" [] k = 8 -> "Coverage Analysis"
      [] k = 9 -> "Risk Assessment" [] OTHER -> "Quote Generation"

\* stages whose execute calls the LLM / the vector search
LlmStages == {1, 2, 3, 6, 8, 9, 10}
SearchStages == {2, 3, 6, 8, 9}

\* PipelineResult(success=False)
NewResult ==
    [success |-> FALSE, quote_id |-> None, extracted_email |-> None,
     industry_classification |-> None, rate_info |-> <<>>,
     revenue_estimate |-> None, premium_calculation |-> None,
     modifier_result |-> None, authority_check |-> None,
     coverage_analysis |-> None, risk_assessment |-> None,
     generated_quote |-> None, metrics |-> None,
     errors |-> <<>>, warnings |-> <<>>]

\* the locals of process() at lines 105-113
NewLocals ==
    [result |-> NewResult, step_durations |-> {}, errors |-> <<>>,
     warnings |-> <<>>, llm_calls |-> 0, vector_searches |-> 0,
     documents_retrieved |-> 0]

\* what the collaborators may answer inside a pipeline run
PipelineProfiles ==
    {ExtractedEmail(None, {5}, {8}, None, None, {"Multiple claims in 2022"}),
     ExtractedEmail({1000000}, {50}, {12}, {10}, {500000}, None)}
PipelineIndustries == {Industry("54", "MEDIUM")}
LlmRateRows == {<<>>}
LlmModifiers ==
    {<<[modifier_name |-> "Experience credit", modifier_type |-> "experience",
        modifier_value |-> -10000, reason |-> "established",
        premium_impact |-> -500000]>>}
CoverageOutputs ==
    {[recommended_endorsements |-> <<>>, coverage_limitations |-> <<>>,
      coverage_gaps |-> <<>>]}
RiskOutputs ==
    {[overall_risk_level |-> "MEDIUM", risk_score |-> 50,
      underwriting_notes |-> <<>>, recommendation |-> "ACCEPT"]}

\* quote_id = Q-{date}-{uuid4 hex[:8]}
QuoteId(day, hex) == [date |-> day, hex |-> hex]

\* QuoteGenerationStep.execute
QuoteGenerationExecute(extracted_email, modifier_result, risk, authority, day, hex) ==
    [quote_id |-> QuoteId(day, hex),
     total_annual_premium |-> modifier_result.adjusted_premium,
     underwriting_notes |->
        IF authority.requires_approval
        THEN Append(risk.underwriting_notes, "Requires approval")
        ELSE risk.underwriting_notes]

\* the values stage k may return, given the outputs of the earlier stages
StageOutputs(k, r, day) ==
    CASE k = 1 -> PipelineProfiles
      [] k = 2 -> PipelineIndustries
      [] k = 3 -> {RateDiscoveryExecute(Val(r.extracted_email),
                                        Val(r.industry_classification), rows) :
                      rows \in LlmRateRows}
      [] k = 4 -> {RevenueEstimationExecute(Val(r.extracted_email),
                                            Val(r.industry_classification))}
      [] k = 5 -> {PremiumCalculationExecute(Val(r.extracted_email),
                                             r.rate_info, r.revenue_estimate)}
      [] k = 6 -> {ModifiersExecute(Val(r.premium_calculation), m) :
                      m \in LlmModifiers}
      [] k = 7 -> {AuthorityCheckExecute(Val(r.extracted_email),
                                         Val(r.industry_classification),
                                         Val(r.modifier_result))}
      [] k = 8 -> CoverageOutputs
      [] k = 9 -> RiskOutputs
      [] OTHER -> {QuoteGenerationExecute(Val(r.extracted_email),
                                          Val(r.modifier_result),
                                          Val(r.risk_assessment),
                                          Val(r.authority_check), day, hex) :
                      hex \in 1..NumHex}

\* a plausible slip: the estimate is not flagged for review
StageWarningsApprovalOnly(k, out) ==
    IF k = 7 /\ out.requires_approval
    THEN <<"Requires " \o Val(out.approver_role) \o " approval">>
    ELSE <<>>

\* the warnings.append calls that follow stages 4 and 7
StageWarnings(k, out) ==
    IF k = 4 /\ out # None
    THEN <<"Revenue estimated - requires verification">>
    ELSE IF k = 7 /\ out.requires_approval
    THEN <<"Requires " \o Val(out.approver_role) \o " approval">>
    ELSE <<>>

\* the assignments that follow the return of stage k (result field, duration,
\* counters, warnings)
AssignOutput(k, l, out) ==
    LET counted ==
            [l EXCEPT !.step_durations = @ \cup {StepKey(k)},
                      !.llm_calls = IF k \in LlmStages THEN @ + 1 ELSE @,
                      !.vector_searches = IF k \in SearchStages THEN @ + 1 ELSE @]
    IN  CASE k = 1 -> [counted EXCEPT !.result.extracted_email = Some(out)]
          [] k = 2 -> [counted EXCEPT !.result.industry_classification = Some(out)]
          [] k = 3 -> [counted EXCEPT !.result.rate_info = out]
          [] k = 4 -> [counted EXCEPT
                          !.result.revenue_estimate = out,
                          !.warnings = @ \o StageWarnings(k, out)]
          [] k = 5 -> [counted EXCEPT !.result.premium_calculation = Some(out)]
          [] k = 6 -> [counted EXCEPT !.result.modifier_result = Some(out)]
          [] k = 7 -> [counted EXCEPT
                          !.result.authority_check = Some(out),
                          !.warnings = @ \o StageWarnings(k, out)]
          [] k = 8 -> [counted EXCEPT !.result.coverage_analysis = Some(out)]
          [] k = 9 -> [counted EXCEPT !.result.risk_assessment = Some(out)]
          [] OTHER -> [counted EXCEPT !.result.generated_quote = Some(out),
                                      !.result.quote_id = Some(out.quote_id)]

\* steps 4 and 5 of process() on their own: the estimate, the warning that
\* follows it, and the premium calculation that is handed the estimate
RevenueAndPremium(extracted_email, industry, rates) ==
    LET revenue_estimate == RevenueEstimationExecute(extracted_email, industry)
    IN  [revenue_estimate |-> revenue_estimate,
         warnings |-> StageWarnings(4, revenue_estimate),
         premium_calculation |->
            PremiumCalculationExecute(extracted_email, rates, revenue_estimate)]

\* a plausible slip: the coverage analysis is left out of the sequence
NextStageSkipCoverage(k) == IF k = 7 THEN 9 ELSE k + 1

\* a plausible slip: the revenue-estimation block is jumped over
NextStageSkip(k) == IF k = 3 THEN 5 ELSE k + 1

\* the stage that follows stage k in the straight-line body of process()
NextStage(k) == k + 1

\* _report_progress: the callback is invoked only if one was given
ReportProgress(evs, k, status) ==
    IF progress_callback
    THEN Append(evs, [step |-> k, name |-> StepName(k), status |-> status])
    ELSE evs

\* a plausible slip: the handler starts over from an empty result
ExceptHandlerDiscard(l, e) ==
    [l EXCEPT !.errors = Append(@, e), !.result = NewResult]

\* a plausible slip: the handler marks the failure but drops the message
ExceptHandlerNoRecord(l, e) ==
    [l EXCEPT !.result.success = FALSE]

\* except Exception as e: (lines 249-252)
ExceptHandler(l, e) ==
    [l EXCEPT !.errors = Append(@, e), !.result.success = FALSE]

\* lines 254-264: metrics, errors and warnings are put on the result
RecordMetrics(l) ==
    [l EXCEPT !.result.metrics =
                  Some([step_durations |-> l.step_durations,
                        llm_calls |-> l.llm_calls,
                        vector_searches |-> l.vector_searches,
                        documents_retrieved |-> l.documents_retrieved]),
              !.result.errors = l.errors,
              !.result.warnings = l.warnings]

\* a plausible slip: the handler returns before the metrics are recorded
AbortWithoutMetrics(l, e) == ExceptHandler(l, e)

\* an exception inside the try block: handler, then metrics, then return
Abort(l, e) == RecordMetrics(ExceptHandler(l, e))

\* result.model_dump() plus the _id and saved_at keys (lines 274-276)
ResultDict(result, now) ==
    ("_id" :> Val(result.quote_id)) @@ ("saved_at" :> now) @@ result

\* a plausible slip: insert instead of replace-by-key
InsertOne(coll, key, doc) == coll \cup {doc}

\* quotes_collection.replace_one({"_id": key}, doc, upsert=True)
ReplaceOne(coll, key, doc) ==
    IF \E d \in coll : d["_id"] = key
    THEN (coll \ {CHOOSE d \in coll : d["_id"] = key}) \cup {doc}
    ELSE coll \cup {doc}

At(w, a) == pc[w].at = a
Goto(w, a, k) == pc' = [pc EXCEPT ![w] = [at |-> a, stage |-> k]]

Idle ==
    /\ pc = [w \in Workers |-> [at |-> "idle", stage |-> 0]]
    /\ run = [w \in Workers |-> 0]
    /\ cur = [w \in Workers |-> NewLocals]
    /\ events = [w \in Workers |-> <<>>]
    /\ hist = [w \in Workers |-> <<>>]
    /\ store = {}
    /\ writeLog = <<>>
    /\ started = 0
    /\ today = 1

Init ==
    /\ call = NoCall
    /\ Idle
    /\ progress_callback \in BOOLEAN

\* process(email_content) is entered: lines 105-113
Begin(w) ==
    /\ pc[w].at \in {"idle", "returned"}
    /\ started < MaxRuns
    /\ started' = started + 1
    /\ run' = [run EXCEPT ![w] = started + 1]
    /\ cur' = [cur EXCEPT ![w] = NewLocals]
    /\ events' = [events EXCEPT ![w] = <<>>]
    /\ hist' = [hist EXCEPT ![w] = <<>>]
    /\ Goto(w, "ready", 1)
    /\ UNCHANGED <<call, store, writeLog, today, progress_callback>>

\* _report_progress(k, name, "running") and the call of stage k's execute
StartStage(w) ==
    LET k == pc[w].stage
    IN  /\ At(w, "ready")
        /\ events' = [events EXCEPT ![w] = ReportProgress(@, k, "running")]
        /\ \/ /\ hist' = [hist EXCEPT ![w] = Append(@, [step |-> k, what |-> "start"])]
              /\ Goto(w, "running", k)
              /\ UNCHANGED cur
           \/ \* the callback raises
              /\ progress_callback
              /\ cur' = [cur EXCEPT ![w] = Abort(@, [src |-> "callback", step |-> k])]
              /\ Goto(w, "returned", k)
              /\ UNCHANGED hist
        /\ UNCHANGED <<call, run, store, writeLog, started, today,
                       progress_callback>>

\* stage k's execute raises
StageRaises(w) ==
    LET k == pc[w].stage
    IN  /\ At(w, "running")
        /\ k \in LlmStages
        /\ hist' = [hist EXCEPT ![w] = Append(@, [step |-> k, what |-> "raise"])]
        /\ cur' = [cur EXCEPT ![w] = Abort(@, [src |-> "stage", step |-> k])]
        /\ Goto(w, "returned", k)
        /\ UNCHANGED <<call, run, events, store, writeLog, started, today,
                       progress_callback>>

\* stage k's execute returns: assignments, _report_progress(k, name,
\* "complete"), and after stage 10 result.success = True
StageReturns(w) ==
    LET k == pc[w].stage
    IN  /\ At(w, "running")
        /\ \E out \in StageOutputs(k, cur[w].result, today) :
              LET assigned == AssignOutput(k, cur[w], out)
              IN  /\ hist' = [hist EXCEPT ![w] =
                                Append(@, [step |-> k, what |-> "return", out |-> out])]
                  /\ events' = [events EXCEPT ![w] = ReportProgress(@, k, "complete")]
                  /\ \/ /\ NextStage(k) <= NumStages
                        /\ cur' = [cur EXCEPT ![w] = assigned]
                        /\ Goto(w, "ready", NextStage(k))
                     \/ /\ NextStage(k) > NumStages
                        /\ cur' = [cur EXCEPT ![w] =
                                      [assigned EXCEPT !.result.success = TRUE]]
                        /\ Goto(w, "save", k)
                     \/ \* the callback raises
                        /\ progress_callback
                        /\ cur' = [cur EXCEPT ![w] =
                                      Abort(assigned, [src |-> "callback", step |-> k])]
                        /\ Goto(w, "returned", k)
        /\ UNCHANGED <<call, run, store, writeLog, started, today,
                       progress_callback>>

\* a plausible slip: the failed write reaches the except clause of process()
SaveRaisedPropagates(l) == ExceptHandler(l, [src |-> "save", step |-> NumStages])

\* except Exception as e: logger.error(...) inside _save_result (lines
\* 284-285): the exception is logged and the locals of process() are untouched
SaveRaised(l) == l

\* _save_result(result), then lines 254-266
SaveResult(w) ==
    /\ At(w, "save")
    /\ \/ \* the document reaches the collection
          LET doc == ResultDict(cur[w].result, today)
          IN  /\ store' = ReplaceOne(store, doc["_id"], doc)
              /\ writeLog' = Append(writeLog, [run |-> run[w], key |-> doc["_id"]])
              /\ cur' = [cur EXCEPT ![w] = RecordMetrics(@)]
       \/ \* get_collection or replace_one raises (caught and logged at
          \* lines 284-285), or the collection is the MockCollection
          /\ UNCHANGED <<store, writeLog>>
          /\ cur' = [cur EXCEPT ![w] = RecordMetrics(SaveRaised(@))]
    /\ Goto(w, "returned", pc[w].stage)
    /\ UNCHANGED <<call, run, events, hist, started, today, progress_callback>>

\* midnight passes
Tick ==
    /\ today < MaxDay
    /\ today' = today + 1
    /\ UNCHANGED <<call, pc, run, cur, events, hist, store, writeLog, started,
                   progress_callback>>

Step(w) ==
    \/ Begin(w)
    \/ StartStage(w)
    \/ StageRaises(w)
    \/ StageReturns(w)
    \/ SaveResult(w)

Next == (\E w \in Workers : Step(w)) \/ Tick

Spec == Init /\ [][Next]_vars

CallAuthority ==
    /\ call.fn = "authority" /\ ~call.done
    /\ call' = [fn |-> "authority", done |-> TRUE,
                extracted_email |-> call.extracted_email,
                industry |-> call.industry,
                modifier_result |-> call.modifier_result,
                result |-> AuthorityCheckExecute(call.extracted_email,
                                                 call.industry,
                                                 call.modifier_result)]
    /\ UNCHANGED <<pc, run, cur, events, store, writeLog, started, today, hist,
                   progress_callback>>

CallModifiers ==
    /\ call.fn = "modifiers" /\ ~call.done
    /\ call' = [fn |-> "modifiers", done |-> TRUE,
                premium_calc |-> call.premium_calc,
                modifiers |-> call.modifiers,
                result |-> ModifiersExecute(call.premium_calc, call.modifiers)]
    /\ UNCHANGED <<pc, run, cur, events, store, writeLog, started, today, hist,
                   progress_callback>>

CallClassify ==
    /\ call.fn = "classify" /\ ~call.done
    /\ call' = [fn |-> "classify", done |-> TRUE,
                attempts |-> call.attempts,
                response |-> call.response,
                result |-> IndustryClassifierExecute(call.attempts,
                                                     call.response)]
    /\ UNCHANGED <<pc, run, cur, events, store, writeLog, started, today, hist,
                   progress_callback>>

CallRates ==
    /\ call.fn = "rates" /\ ~call.done
    /\ call' = [fn |-> "rates", done |-> TRUE,
                extracted_email |-> call.extracted_email,
                industry |-> call.industry,
                rate_items |-> call.rate_items,
                result |-> RateDiscoveryExecute(
                              call.extracted_email, call.industry,
                              ParseRateRows(call.rate_items, call.industry))]
    /\ UNCHANGED <<pc, run, cur, events, store, writeLog, started, today, hist,
                   progress_callback>>

CallParseNumber ==
    /\ call.fn = "parse_number" /\ ~call.done
    /\ call' = [fn |-> "parse_number", done |-> TRUE, value |-> call.value,
                result |-> ParseNumber(call.value)]
    /\ UNCHANGED <<pc, run, cur, events, store, writeLog, started, today, hist,
                   progress_callback>>

CallProcessQuote ==
    /\ call.fn = "process_quote" /\ ~call.done
    /\ call' = [fn |-> "process_quote", done |-> TRUE,
                filename |-> call.filename,
                email_content |-> call.email_content,
                result |-> ProcessQuote(call.email_content)]
    /\ UNCHANGED <<pc, run, cur, events, store, writeLog, started, today, hist,
                   progress_callback>>

CallProcessQuoteFile ==
    /\ call.fn = "process_quote_file" /\ ~call.done
    /\ call' = [fn |-> "process_quote_file", done |-> TRUE,
                filename |-> call.filename,
                email_content |-> call.email_content,
                result |-> ProcessQuoteFile(call.filename, call.email_content)]
    /\ UNCHANGED <<pc, run, cur, events, store, writeLog, started, today, hist,
                   progress_callback>>

CallCliMain ==
    /\ call.fn = "cli_main" /\ ~call.done
    /\ call' = [fn |-> "cli_main", done |-> TRUE,
                filename |-> call.filename,
                email_content |-> call.email_content,
                result |-> CliMain(call.email_content)]
    /\ UNCHANGED <<pc, run, cur, events, store, writeLog, started, today, hist,
                   progress_callback>>

CallRevenueAndPremium ==
    /\ call.fn = "revenue_and_premium" /\ ~call.done
    /\ call' = [fn |-> "revenue_and_premium", done |-> TRUE,
                extracted_email |-> call.extracted_email,
                industry |-> call.industry,
                rates |-> call.rates,
                result |-> RevenueAndPremium(call.extracted_email,
                                             call.industry, call.rates)]
    /\ UNCHANGED <<pc, run, cur, events, store, writeLog, started, today, hist,
                   progress_callback>>

CallQuoteDates ==
    /\ call.fn = "quote_dates" /\ ~call.done
    /\ call' = [fn |-> "quote_dates", done |-> TRUE,
                effective_date |-> call.effective_date,
                now |-> call.now,
                result |-> QuoteDates(call.effective_date, call.now)]
    /\ UNCHANGED <<pc, run, cur, events, store, writeLog, started, today, hist,
                   progress_callback>>

NextCalc ==
    \/ CallGenerateJson
    \/ CallLineItem
    \/ CallQuoteDates
    \/ CallRevenueAndPremium
    \/ CallProcessQuote
    \/ CallProcessQuoteFile
    \/ CallCliMain
    \/ CallParseNumber
    \/ CallRates
    \/ CallEstimate
    \/ CallPremium
    \/ CallAuthority
    \/ CallModifiers
    \/ CallClassify

InitCalc ==
    /\ call \in PendingCalls
    /\ Idle
    /\ progress_callback = FALSE

SpecCalc == InitCalc /\ [][NextCalc]_vars

-----------------------------------------------------------------------------
(* Properties of the orchestrator *)

Returned(w) == pc[w].at = "returned"
Result(w) == cur[w].result
Last(h) == h[Len(h)]

\* the result field that holds the output of stage j equals out
HoldsOutput(r, j, out) ==
    CASE j = 1 -> r.extracted_email = Some(out)
      [] j = 2 -> r.industry_classification = Some(out)
      [] j = 3 -> r.rate_info = out
      [] j = 4 -> r.revenue_estimate = out
      [] j = 5 -> r.premium_calculation = Some(out)
      [] j = 6 -> r.modifier_result = Some(out)
      [] j = 7 -> r.authority_check = Some(out)
      [] j = 8 -> r.coverage_analysis = Some(out)
      [] j = 9 -> r.risk_assessment = Some(out)
      [] OTHER -> r.generated_quote = Some(out)

\* C1: in every run the stages are started in the order 1..10, stage k+1 is
\* started only after stage k has returned, no stage is started twice, and a
\* run that succeeds has started and finished all ten stages.
C1_StagesInOrder ==
    \A w \in Workers :
        LET h == hist[w]
        IN  /\ \A i \in 1..Len(h) :
                  /\ h[i].step = (i + 1) \div 2
                  /\ (i % 2 = 1) => h[i].what = "start"
                  /\ (i % 2 = 0) => h[i].what \in {"return", "raise"}
                  /\ (i < Len(h) /\ i % 2 = 0) => h[i].what = "return"
            /\ Result(w).success =>
                  /\ Len(h) = 2 * NumStages
                  /\ Last(h).what = "return"

C1_Witness ==
    \E w \in Workers :
        Returned(w) /\ Result(w).success /\ Len(hist[w]) = 2 * NumStages

\* C2: when stage k raises, no later stage is started, the returned result
\* has success = false, errors holds the exception, and the output of every
\* stage before k is still on the result.
C2_PartialResultOnFailure ==
    \A w \in Workers :
        (Returned(w) /\ hist[w] # <<>> /\ Last(hist[w]).what = "raise") =>
            LET k == Last(hist[w]).step
                r == Result(w)
            IN  /\ Len(hist[w]) = 2 * k
                /\ r.success = FALSE
                /\ \E i \in 1..Len(r.errors) :
                      r.errors[i] = [src |-> "stage", step |-> k]
                /\ \A j \in 1..(k - 1) :
                      HoldsOutput(r, j, hist[w][2 * j].out)

C2_Witness ==
    \E w \in Workers :
        /\ Returned(w) /\ hist[w] # <<>>
        /\ Last(hist[w]).what = "raise" /\ Last(hist[w]).step = 8
        /\ Result(w).authority_check # None

\* C3: whatever the collaborators do, process returns a result, and in it
\* success is false exactly when errors is non-empty.
C3_FailureSignal ==
    \A w \in Workers :
        Returned(w) =>
            /\ Result(w).metrics # None
            /\ (Result(w).success = FALSE) <=> (Result(w).errors # <<>>)

C3_Witness ==
    \E w \in Workers :
        /\ Returned(w)
        /\ Result(w).quote_id # None
        /\ Result(w).errors = <<[src |-> "callback", step |-> NumStages]>>

\* the stored document without the keys added at write time
Strip(doc) == [f \in (DOMAIN doc) \ {"_id", "saved_at"} |-> doc[f]]

LastWriter(key) ==
    LET idx == {i \in 1..Len(writeLog) : writeLog[i].key = key}
    IN  writeLog[CHOOSE i \in idx : \A j \in idx : j <= i].run

\* C4: the document a successful run wrote, read back without _id and
\* saved_at, equals the PipelineResult that process() returned.
C4_RoundTrip ==
    \A w \in Workers :
        (Returned(w) /\ Result(w).success) =>
            \A d \in store :
                (d["_id"] = Val(Result(w).quote_id) /\ LastWriter(d["_id"]) = run[w])
                    => Strip(d) = Result(w)

\* C5: the store holds at most one document per quote_id, every stored
\* document comes from a run that completed all ten stages, and a failed run
\* has written nothing.
C5_StoreKeyedByQuoteId ==
    /\ \A d1, d2 \in store : d1["_id"] = d2["_id"] => d1 = d2
    /\ \A d \in store :
          /\ d["success"]
          /\ d["generated_quote"] # None
          /\ Val(d["generated_quote"]).quote_id = d["_id"]
          /\ d["extracted_email"] # None /\ d["industry_classification"] # None
          /\ d["premium_calculation"] # None /\ d["modifier_result"] # None
          /\ d["authority_check"] # None /\ d["coverage_analysis"] # None
          /\ d["risk_assessment"] # None
    /\ \A w \in Workers :
          (\E i \in 1..Len(writeLog) : writeLog[i].run = run[w]) =>
              /\ Result(w).success
              /\ Len(hist[w]) = 2 * NumStages
              /\ Last(hist[w]).what = "return"
    /\ \A i \in 1..Len(writeLog) : \E d \in store : d["_id"] = writeLog[i].key

C5_Witness ==
    /\ Len(writeLog) = 2
    /\ writeLog[1].key = writeLog[2].key
    /\ Cardinality(store) = 1
    /\ \A d \in store : LastWriter(d["_id"]) = writeLog[2].run

\* C6: no two runs write the store under the same quote_id.
C6_UniqueQuoteIds ==
    \A i, j \in 1..Len(writeLog) :
        i # j => writeLog[i].key # writeLog[j].key

Event(k, status) == [step |-> k, name |-> StepName(k), status |-> status]

FullEventSequence ==
    [i \in 1..(2 * NumStages) |->
        Event((i + 1) \div 2, IF i % 2 = 1 THEN "running" ELSE "complete")]

CallbackNeverRaised(w) ==
    \A i \in 1..Len(Result(w).errors) : Result(w).errors[i].src # "callback"

\* C7: with a progress callback (one that itself returns normally), a
\* successful run reports (1,running),(1,complete),...,(10,complete), and in
\* every run each stage that reported running also reports complete or
\* failed for the same step before process returns.
C7_ProgressEvents ==
    \A w \in Workers :
        (progress_callback /\ Returned(w) /\ CallbackNeverRaised(w)) =>
            /\ Result(w).success => events[w] = FullEventSequence
            /\ \A i \in 1..Len(events[w]) :
                  events[w][i].status = "running" =>
                      \E j \in (i + 1)..Len(events[w]) :
                          /\ events[w][j].step = events[w][i].step
                          /\ events[w][j].status \in {"complete", "failed"}

-----------------------------------------------------------------------------
(* Properties of the pure stages *)

PremiumCallDone == call.fn = "premium" /\ call.done
EstimateCallDone == call.fn = "estimate" /\ call.done

CallExposures == Exposures(call.extracted_email, call.revenue_estimate)
HasMinimumNote(item) ==
    \E n \in 1..Len(item.calculation_notes) :
        item.calculation_notes[n] = MinimumNote

\* C8 as stated: the line premium is max(computed, minimum); below the
\* minimum base_premium is the minimum exactly and the notes say so; at or
\* above the minimum the notes do not say so.
C8_MinimumPremiumExact ==
    PremiumCallDone =>
        \A i \in 1..Len(call.rates) :
            LET rate == call.rates[i]
                item == call.result.line_items[i]
                computed == CalculatedPremium(rate, CallExposures)
            IN  /\ item.base_premium = Max(computed, rate.minimum_premium)
                /\ computed < rate.minimum_premium =>
                      /\ item.base_premium = rate.minimum_premium
                      /\ HasMinimumNote(item)
                /\ computed >= rate.minimum_premium => ~HasMinimumNote(item)

\* C8 amended: the line premium is max(computed, minimum) rounded to two
\* decimals; below the minimum base_premium is the rounded minimum and the
\* notes say the minimum was applied; at or above it they do not.
C8_MinimumPremiumRounded ==
    PremiumCallDone =>
        \A i \in 1..Len(call.rates) :
            LET rate == call.rates[i]
                item == call.result.line_items[i]
                computed == CalculatedPremium(rate, CallExposures)
            IN  /\ item.base_premium = Round2(Max(computed, rate.minimum_premium))
                /\ computed < rate.minimum_premium =>
                      /\ item.base_premium = Round2(rate.minimum_premium)
                      /\ HasMinimumNote(item)
                /\ computed >= rate.minimum_premium => ~HasMinimumNote(item)

C8_Witness ==
    /\ PremiumCallDone
    /\ \E i, j \in 1..Len(call.rates) :
          /\ CalculatedPremium(call.rates[i], CallExposures)
                < call.rates[i].minimum_premium
          /\ HasMinimumNote(call.result.line_items[i])
          /\ CalculatedPremium(call.rates[j], CallExposures)
                > call.rates[j].minimum_premium
          /\ CalculatedPremium(call.rates[j], CallExposures) % 10 # 0

EnumeratedBases ==
    {"per_1000_revenue", "per_100_payroll", "per_vehicle", "percent_of_tiv"}

BasisKeywords ==
    {"revenue", "1000", "payroll", "100", "vehicle", "tiv", "percent", "property"}

Unrecognized(basis) == \A kw \in BasisKeywords : ~Contains(Lower(basis), kw)

\* the documented formula, in mills, for rate (hundredths) and exposures
DocumentedPremium(basis, base_rate, revenue, vehicle_count, property_value) ==
    CASE basis = "per_100_payroll" ->
            (base_rate * (((35 * revenue) \div 100) * 10)) \div 100
      [] basis = "per_vehicle" -> base_rate * vehicle_count * 10
      [] basis = "percent_of_tiv" -> (property_value * base_rate) \div 10
      [] OTHER -> (base_rate * revenue) \div 100

CallRevenue ==
    IF call.extracted_email.annual_revenue # None
    THEN Val(call.extracted_email.annual_revenue)
    ELSE IF call.revenue_estimate # None
         THEN Val(call.revenue_estimate).estimated_revenue
         ELSE 1000000

\* C9: for the enumerated bases and for an unrecognized basis the
\* pre-minimum premium follows the documented formula; there is one line
\* item per rate, in input order, and the total is the sum of the items.
C9_DocumentedFormulas ==
    PremiumCallDone =>
        LET items == call.result.line_items
        IN  /\ Len(items) = Len(call.rates)
            /\ call.result.total_base_premium =
                  SumSeq([i \in 1..Len(items) |-> items[i].base_premium])
            /\ \A i \in 1..Len(call.rates) :
                  LET rate == call.rates[i]
                      documented ==
                          DocumentedPremium(
                              Lower(rate.rate_basis), rate.base_rate, CallRevenue,
                              OrElse(call.extracted_email.vehicle_count, 0),
                              OrElse(call.extracted_email.property_value, 0))
                  IN  /\ items[i].coverage_type = rate.coverage_type
                      /\ items[i].rate_used = rate.base_rate
                      /\ (Lower(rate.rate_basis) \in EnumeratedBases
                            \/ Unrecognized(rate.rate_basis)) =>
                            /\ CalculatedPremium(rate, CallExposures) = documented
                            /\ items[i].base_premium =
                                  Round2(Max(documented, rate.minimum_premium))

C9_Witness ==
    /\ PremiumCallDone
    /\ Len(call.rates) = 2
    /\ call.rates[1].rate_basis = "per_100_payroll"
    /\ call.rates[2].rate_basis = "per_1000_revenue"
    /\ call.result.line_items[1].coverage_type = "workers_comp"
    /\ call.result.line_items[1].base_premium > call.rates[1].minimum_premium
    /\ call.result.line_items[2].base_premium > call.rates[2].minimum_premium

\* C10: the revenue estimator returns null for every profile whose
\* annual_revenue is non-null (a stated 0 included) and a non-null estimate
\* only when annual_revenue is null.
C10_EstimateOnlyWhenRevenueNull ==
    EstimateCallDone =>
        /\ call.extracted_email.annual_revenue # None => call.result = None
        /\ call.result # None => call.extracted_email.annual_revenue = None

-----------------------------------------------------------------------------
(* Properties of the authority check *)

AuthorityCallDone == call.fn = "authority" /\ call.done

InSeq(x, q) == \E i \in 1..Len(q) : q[i] = x

\* the documented tiers, in mills
PremiumTier(premium) ==
    IF premium <= 50000000 THEN "standard"
    ELSE IF premium <= 150000000 THEN "senior"
    ELSE IF premium <= 500000000 THEN "management"
    ELSE "reinsurance"

\* the tier the premium reason of a returned check speaks of
TierReason(check) ==
    IF InSeq("Premium exceeds standard authority", check.referral_reasons)
    THEN "senior"
    ELSE IF InSeq("Premium requires management approval", check.referral_reasons)
    THEN "management"
    ELSE IF InSeq("Premium exceeds treaty limits", check.referral_reasons)
    THEN "reinsurance"
    ELSE "standard"

Escalated(check) ==
    \/ InSeq("High-risk industry", check.referral_reasons)
    \/ InSeq("Adverse loss history requires review", check.referral_reasons)

Rank(level) ==
    CASE level = "standard" -> 0
      [] level = "senior" -> 1
      [] level = "management" -> 2
      [] level = "reinsurance" -> 3

\* C11: the base authority level is decided by the adjusted premium alone:
\* up to 50,000 standard, up to 150,000 senior, up to 500,000 management,
\* above that reinsurance, each boundary belonging to the lower tier. The
\* premium reason of every check names that tier, and a check no escalation
\* rule touched returns exactly that tier.
C11_BaseLevelFromPremium ==
    AuthorityCallDone =>
        LET tier == PremiumTier(call.modifier_result.adjusted_premium)
        IN  /\ TierReason(call.result) = tier
            /\ ~Escalated(call.result) => call.result.authority_level = tier

C11_Witness ==
    /\ AuthorityCallDone
    /\ call.modifier_result.adjusted_premium = 150000000
    /\ ~Escalated(call.result)
    /\ call.result.authority_level = "senior"

\* C12: the returned authority level is never below the level the premium
\* alone gives, in the order standard < senior < management < reinsurance.
C12_NeverLowered ==
    AuthorityCallDone =>
        Rank(call.result.authority_level)
            >= Rank(PremiumTier(call.modifier_result.adjusted_premium))

C12_Witness ==
    /\ AuthorityCallDone
    /\ PremiumTier(call.modifier_result.adjusted_premium) = "management"
    /\ InSeq("Adverse loss history requires review", call.result.referral_reasons)
    /\ call.result.authority_level = "management"

\* C13: auto_bind_eligible is true exactly when the level is standard, the
\* industry is not HIGH risk and there is no referral reason;
\* requires_approval is true exactly when the level is not standard.
C13_AutoBindAndApproval ==
    AuthorityCallDone =>
        /\ call.result.auto_bind_eligible
              <=> (/\ call.result.authority_level = "standard"
                   /\ call.industry.risk_category # "HIGH"
                   /\ call.result.referral_reasons = <<>>)
        /\ call.result.requires_approval
              <=> call.result.authority_level # "standard"

C13_Witness ==
    /\ AuthorityCallDone
    /\ call.result.authority_level = "standard"
    /\ call.industry.risk_category # "HIGH"
    /\ call.result.referral_reasons # <<>>
    /\ ~call.result.auto_bind_eligible
    /\ ~call.result.requires_approval

-----------------------------------------------------------------------------
(* Properties of the modifier stage *)

ModifiersCallDone == call.fn = "modifiers" /\ call.done

ImpactSum == SumSeq([i \in 1..Len(call.modifiers) |->
                        call.modifiers[i].premium_impact])

WholeCents(m) == m % 10 = 0

\* C14 as stated: adjusted_premium is total_base_premium plus the reported
\* total_modifier_impact, and total_modifier_impact is the sum of the
\* premium_impact of the listed modifiers.
C14_AdjustedIsBasePlusImpact ==
    ModifiersCallDone =>
        /\ call.result.total_modifier_impact = ImpactSum
        /\ call.result.adjusted_premium
              = call.premium_calc.total_base_premium
                + call.result.total_modifier_impact

\* C14 amended: total_modifier_impact is the sum of the premium_impact of the
\* listed modifiers rounded to 2 decimal places, and adjusted_premium is
\* total_base_premium plus that (unrounded) sum, rounded to 2 decimal places;
\* the two differ by total_base_premium when base and impacts are whole cents.
\* The fraction sum takes no part in it.
C14_AdjustedIsRoundedBasePlusImpacts ==
    ModifiersCallDone =>
        /\ call.result.total_modifier_impact = Round2(ImpactSum)
        /\ call.result.adjusted_premium
              = Round2(call.premium_calc.total_base_premium + ImpactSum)
        /\ (WholeCents(ImpactSum)
              /\ WholeCents(call.premium_calc.total_base_premium))
             => call.result.adjusted_premium
                  = call.premium_calc.total_base_premium
                    + call.result.total_modifier_impact

\* impacts that disagree with the listed fractions, and a sum of -123.331
C14_Witness ==
    /\ ModifiersCallDone
    /\ Len(call.modifiers) = 2
    /\ call.premium_calc.total_base_premium = 5000000
    /\ call.result.total_modifier_percentage = -2500
    /\ ImpactSum = -123331
    /\ call.result.adjusted_premium = 4876670

-----------------------------------------------------------------------------
(* Properties of the warnings *)

StageReturned(w, k) ==
    Len(hist[w]) >= 2 * k /\ hist[w][2 * k].what = "return"

StageOut(w, k) == hist[w][2 * k].out

\* some warning of the returned result speaks of text
HasWarning(w, text) ==
    \E i \in 1..Len(Result(w).warnings) :
        Contains(Lower(Result(w).warnings[i]), text)

AdverseLossFired(w) ==
    /\ StageReturned(w, 7)
    /\ InSeq("Adverse loss history requires review",
             StageOut(w, 7).referral_reasons)

NothingRaised(w) ==
    /\ \A i \in 1..Len(hist[w]) : hist[w][i].what # "raise"
    /\ CallbackNeverRaised(w)

\* the two conditions the orchestrator turns into warnings, and no error
\* without an exception
WarnedNotFailed(w) ==
    /\ (StageReturned(w, 4) /\ StageOut(w, 4) # None)
          => HasWarning(w, "revenue estimated")
    /\ (StageReturned(w, 7) /\ StageOut(w, 7).requires_approval)
          => HasWarning(w, "approval")
    /\ NothingRaised(w) => Result(w).errors = <<>>
    /\ (NothingRaised(w) /\ Len(hist[w]) = 2 * NumStages) => Result(w).success

\* C15 as stated: a returned estimate, requires_approval = true and the
\* adverse-loss-history rule each leave an entry of their own in the warnings
\* of the returned result, add nothing to errors, and do not stop the run
\* from succeeding.
C15_WarningForEachCondition ==
    \A w \in Workers :
        Returned(w) =>
            /\ WarnedNotFailed(w)
            /\ AdverseLossFired(w) => HasWarning(w, "loss history")

\* C15 amended: a returned estimate and requires_approval = true each leave
\* an entry in the warnings; the adverse-loss-history rule leaves its entry in
\* authority_check.referral_reasons and always comes with requires_approval
\* = true, hence with the approval warning. None of the three adds to errors
\* or stops the run from succeeding.
C15_WarningsAndReferralReasons ==
    \A w \in Workers :
        Returned(w) =>
            /\ WarnedNotFailed(w)
            /\ AdverseLossFired(w) =>
                  /\ StageOut(w, 7).requires_approval
                  /\ HasWarning(w, "approval")
                  /\ InSeq("Adverse loss history requires review",
                           Val(Result(w).authority_check).referral_reasons)

C15_Witness ==
    \E w \in Workers :
        /\ Returned(w) /\ Result(w).success
        /\ AdverseLossFired(w)
        /\ StageOut(w, 4) # None
        /\ Len(Result(w).warnings) = 2
        /\ Result(w).errors = <<>>

-----------------------------------------------------------------------------
(* Properties of the LLM stages *)

ClassifyCallDone == call.fn = "classify" /\ call.done

\* every attempt of the call met a completion that is not JSON
NeverParsed(attempts) ==
    \A i \in 1..StopAfterAttempt : attempts[i] = "bad_json"

\* the classifier's defaults: bic_code "99", MEDIUM, confidence 0.5
DefaultClassification ==
    [bic_code |-> "99", risk_category |-> "MEDIUM", confidence_score |-> 50]

\* C16: when the output of the LLM cannot be parsed as JSON, the stage that
\* called it returns its documented default instead of raising, so that the
\* pipeline goes on to the next stage.
C16_ParseFailureGivesDefault ==
    (ClassifyCallDone /\ NeverParsed(call.attempts)) =>
        /\ ~call.result.raised
        /\ call.result.value = DefaultClassification

\* C19: every classification the classifier returns has a confidence_score
\* within [0, 1] and a risk_category among LOW, MEDIUM, HIGH.
C19_ClassificationInRange ==
    (ClassifyCallDone /\ ~call.result.raised) =>
        /\ call.result.value.confidence_score \in 0..100
        /\ call.result.value.risk_category \in {"LOW", "MEDIUM", "HIGH"}

-----------------------------------------------------------------------------
(* Properties of rate discovery *)

RatesCallDone == call.fn = "rates" /\ call.done

\* C17: rate discovery never returns an empty list; when the LLM gives no
\* row, the result holds the general-liability default (5.0 per 1,000 of
\* revenue, minimum 1,500) always, the property default (0.35 percent of TIV,
\* minimum 1,000) exactly when property_value is not null, and the auto
\* default (750 per vehicle, minimum 1,500) exactly when vehicle_count is not
\* null.
C17_DefaultRates ==
    RatesCallDone =>
        LET bic == call.industry.bic_code
            p == call.extracted_email
        IN  /\ call.result # <<>>
            /\ call.rate_items = <<>> =>
                  /\ InSeq(RateInfo(bic, "general_liability", 500,
                                    "per_1000_revenue", 1500000), call.result)
                  /\ InSeq(RateInfo(bic, "property", 35, "percent_of_tiv",
                                    1000000), call.result)
                        <=> p.property_value # None
                  /\ InSeq(RateInfo(bic, "auto_liability", 75000,
                                    "per_vehicle", 1500000), call.result)
                        <=> p.vehicle_count # None

-----------------------------------------------------------------------------
(* Properties of the email parser *)

ParseCallDone == call.fn = "parse_number" /\ call.done

ParsedString(v) == call.value = [kind |-> "string", str |-> v]

\* C18: _parse_number raises for no value; it returns the normalized number
\* ('$15M' gives 15,000,000 and '250K' gives 250,000) or null.
C18_ParseNumberNeverRaises ==
    ParseCallDone =>
        /\ ~call.result.raised
        /\ ParsedString("$15M") => call.result.value = Some(1500000000)
        /\ ParsedString("250K") => call.result.value = Some(25000000)
        /\ ParsedString("N/A") => call.result.value = None

-----------------------------------------------------------------------------
(* Properties of the entry points *)

EntryCallDone ==
    call.fn \in {"process_quote", "process_quote_file", "cli_main"} /\ call.done

\* C20: every entry point rejects an email of fewer than 50 characters
\* before process is invoked.
C20_ShortEmailRejected ==
    (EntryCallDone /\ Len(call.email_content) < 50) => call.result.rejected

-----------------------------------------------------------------------------
(* Properties of the escalation rules *)

\* the loss-history text holds one of the five keywords, in any case
AdverseText(loss) ==
    /\ loss # None
    /\ \E word \in {"multiple", "several", "frequent", "large", "major"} :
          Contains(Lower(Val(loss)), word)

NextTier(level) ==
    CASE level = "standard" -> "senior"
      [] level = "senior" -> "management"
      [] level = "management" -> "reinsurance"
      [] OTHER -> "reinsurance"

\* number of entries of q equal to x
Count(x, q) == Cardinality({i \in 1..Len(q) : q[i] = x})

\* C21: on the premium tier, a HIGH risk category raises standard to senior
\* and leaves the other tiers; then loss-history text with one of the five
\* keywords (in any case) raises standard or senior by exactly one tier and
\* leaves management and reinsurance; each rule that fires appends one
\* referral reason, and a rule that does not fire appends none.
C21_EscalationInSequence ==
    AuthorityCallDone =>
        LET tier == PremiumTier(call.modifier_result.adjusted_premium)
            high == call.industry.risk_category = "HIGH"
            afterRisk == IF high /\ tier = "standard" THEN "senior" ELSE tier
            adverse == AdverseText(call.extracted_email.loss_history)
            afterLoss == IF adverse /\ afterRisk \in {"standard", "senior"}
                         THEN NextTier(afterRisk) ELSE afterRisk
            reasons == call.result.referral_reasons
        IN  /\ call.result.authority_level = afterLoss
            /\ Count("High-risk industry", reasons) = IF high THEN 1 ELSE 0
            /\ Count("Adverse loss history requires review", reasons)
                  = IF adverse THEN 1 ELSE 0

\* standard by premium, raised to senior by the risk category and then to
\* management by the loss history
C21_Witness ==
    /\ AuthorityCallDone
    /\ PremiumTier(call.modifier_result.adjusted_premium) = "standard"
    /\ call.industry.risk_category = "HIGH"
    /\ call.extracted_email.loss_history = Some("One LARGE claim")
    /\ call.result.authority_level = "management"
    /\ Len(call.result.referral_reasons) >= 2

NewVenture == "New venture - less than 2 years in business"

\* C22: a profile whose years_in_business is known and below 2, 0 included,
\* gets the new-venture referral reason, keeps the level the other rules
\* gave it, and is never auto_bind_eligible.
C22_NewVentureReferred ==
    (AuthorityCallDone
       /\ call.extracted_email.years_in_business # None
       /\ Val(call.extracted_email.years_in_business) < 2) =>
        /\ InSeq(NewVenture, call.result.referral_reasons)
        /\ ~call.result.auto_bind_eligible

-----------------------------------------------------------------------------
(* Properties of the revenue used for the premium *)

RevenueAndPremiumDone == call.fn = "revenue_and_premium" /\ call.done

\* the revenue exposure recorded on the general-liability line
RevenueUsed == call.result.premium_calculation.line_items[1].exposure_value

\* the premium rests on the estimate of step 4, not on a stated revenue
UsedEstimate ==
    /\ call.result.revenue_estimate # None
    /\ RevenueUsed = Val(call.result.revenue_estimate).estimated_revenue
    /\ \/ call.extracted_email.annual_revenue = None
       \/ RevenueUsed # Val(call.extracted_email.annual_revenue)

\* C23: the warnings hold the 'Revenue estimated ... requires verification'
\* entry exactly when the revenue the premium calculator used was the
\* estimate of step 4 and not a revenue stated in the email.
C23_WarningIffEstimateUsed ==
    RevenueAndPremiumDone =>
        (InSeq("Revenue estimated - requires verification",
               call.result.warnings)
           <=> UsedEstimate)

-----------------------------------------------------------------------------
(* Properties of the revenue estimate *)

\* tenths by which the employee-based estimate is multiplied
YearsFactor(yib) ==
    IF yib # None /\ Val(yib) > 10 THEN 12
    ELSE IF yib # None /\ Val(yib) > 5 THEN 11
    ELSE 10

EmployeeEstimate(p, bic) ==
    [estimated_revenue |->
        (Val(p.employee_count)
           * DictGet(INDUSTRY_REVENUE_PER_EMPLOYEE, bic, 150000)
           * YearsFactor(p.years_in_business)) \div 10,
     estimation_method |-> "employee_count_multiplier",
     confidence_level |-> "MEDIUM",
     requires_verification |-> TRUE]

MedianEstimate(bic) ==
    [estimated_revenue |-> DictGet(industry_medians, bic, 1000000),
     estimation_method |-> "industry_median",
     confidence_level |-> "LOW",
     requires_verification |-> TRUE]

-----------------------------------------------------------------------------
(* Properties of the dates of the quote *)

QuoteDatesDone == call.fn = "quote_dates" /\ call.done

Before(a, b) ==
    \/ a.year < b.year
    \/ a.year = b.year /\ a.month < b.month
    \/ a.year = b.year /\ a.month = b.month /\ a.day < b.day

\* the first day of the n-th month after the month of date
FirstOfMonthAfter(date, n) ==
    LET m == date.month + n
    IN  IF m > 12 THEN Date(date.year + 1, m - 12, 1)
        ELSE Date(date.year, m, 1)

\* C25: without an effective date in the email, effective_date is the first
\* of a month strictly after the issuance date (next month, or the month
\* after next when issued after the 15th); whenever there is an
\* effective_date, expiration_date is 365 days after it; quote_valid_until is
\* the issuance date plus 30 days.
C25_QuoteDates ==
    QuoteDatesDone =>
        LET r == call.result
            now == call.now
        IN  /\ call.effective_date = None =>
                  /\ Val(r.effective_date).iso
                  /\ Before(now, Val(r.effective_date).date)
                  /\ Val(r.effective_date).date =
                        FirstOfMonthAfter(now, IF now.day > 15 THEN 2 ELSE 1)
            /\ r.effective_date # None =>
                  /\ Val(r.effective_date).iso
                  /\ r.expiration_date =
                        Some(IsoText(AddDays(Val(r.effective_date).date, 365)))
            /\ r.quote_valid_until = IsoText(AddDays(now, 30))

\* ---- the returned result as a whole ----

\* the result field that holds the output of stage k is set
Present(r, k) ==
    CASE k = 1 -> r.extracted_email # None
      [] k = 2 -> r.industry_classification # None
      [] k = 5 -> r.premium_calculation # None
      [] k = 6 -> r.modifier_result # None
      [] k = 7 -> r.authority_check # None
      [] k = 8 -> r.coverage_analysis # None
      [] k = 9 -> r.risk_assessment # None
      [] OTHER -> r.generated_quote # None

\* the stages whose output is an Optional field of PipelineResult
FieldStages == {1, 2, 5, 6, 7, 8, 9, 10}

\* C26: in every returned result the stage outputs form a prefix of the
\* stage order (a present output implies every earlier one is present),
\* quote_id is non-null exactly when generated_quote is present and equals
\* generated_quote.quote_id, and success implies all eight are present.
C26_OutputsFormPrefix ==
    \A w \in Workers :
        Returned(w) =>
            LET r == Result(w)
            IN  /\ \A k \in FieldStages : \A j \in FieldStages :
                      (j < k /\ Present(r, k)) => Present(r, j)
                /\ (r.quote_id # None) <=> (r.generated_quote # None)
                /\ r.generated_quote # None =>
                      r.quote_id = Some(Val(r.generated_quote).quote_id)
                /\ r.success => \A k \in FieldStages : Present(r, k)

\* a run returned after the coverage analysis raised: the outputs up to the
\* authority check are there, no later one is; and another run succeeded
C26_Witness ==
    /\ \E w \in Workers :
          /\ Returned(w)
          /\ ~Result(w).success
          /\ Present(Result(w), 7)
          /\ ~Present(Result(w), 8)
          /\ Result(w).quote_id = None
    /\ \E w \in Workers :
          /\ Returned(w)
          /\ Result(w).success
          /\ Result(w).quote_id # None

\* the stages of worker w's run whose execute returned
Completed(w) == {k \in 1..NumStages : StageReturned(w, k)}

\* C27: every returned result, successful or failed, carries metrics;
\* step_durations has a key for exactly the completed stages, llm_calls
\* counts the completed stages among 1,2,3,6,8,9,10 and vector_searches those
\* among 2,3,6,8,9 (7 and 5 on success); a stage that raised adds nothing.
C27_MetricsCountCompletedStages ==
    \A w \in Workers :
        Returned(w) =>
            /\ Result(w).metrics # None
            /\ LET m == Val(Result(w).metrics)
               IN  /\ m.step_durations = {StepKey(k) : k \in Completed(w)}
                   /\ m.llm_calls =
                        Cardinality(Completed(w) \cap {1, 2, 3, 6, 8, 9, 10})
                   /\ m.vector_searches =
                        Cardinality(Completed(w) \cap {2, 3, 6, 8, 9})
                   /\ Result(w).success =>
                        m.llm_calls = 7 /\ m.vector_searches = 5

\* a run that failed because the coverage analysis raised: seven durations,
\* four LLM calls, three vector searches
C27_Witness ==
    \E w \in Workers :
        /\ Returned(w)
        /\ ~Result(w).success
        /\ Len(hist[w]) = 16
        /\ Last(hist[w]).what = "raise"
        /\ Result(w).metrics # None
        /\ Val(Result(w).metrics).llm_calls = 4
        /\ Val(Result(w).metrics).vector_searches = 3
        /\ Cardinality(Val(Result(w).metrics).step_durations) = 7

\* worker w's run went through _save_result and its write left no document
WriteFailed(w) ==
    /\ Returned(w)
    /\ Len(hist[w]) = 2 * NumStages
    /\ Last(hist[w]).what = "return"
    /\ CallbackNeverRaised(w)
    /\ \A i \in 1..Len(writeLog) : writeLog[i].run # run[w]

\* C28: a failure of the persistence write after stage 10 does not fail the
\* run: the returned result has success = true, no errors and the generated
\* quote_id.
C28_WriteFailureNotReported ==
    \A w \in Workers :
        WriteFailed(w) =>
            /\ Result(w).success
            /\ Result(w).errors = <<>>
            /\ Result(w).generated_quote # None
            /\ Result(w).quote_id = Some(Val(Result(w).generated_quote).quote_id)

\* a successful result whose quote_id has no document in the store
C28_Witness ==
    \E w \in Workers :
        /\ WriteFailed(w)
        /\ Result(w).success
        /\ Result(w).quote_id # None
        /\ \A d \in store : d["_id"] # Val(Result(w).quote_id)

\* ---- one coverage line ----

LineItemCallDone == call.fn = "line_item" /\ call.done

\* the pre-minimum premium (mills) that applies base_rate (hundredths) once
\* to the recorded exposure, by branch
OncePremium(branch, base_rate, exposure_value) ==
    CASE branch = "revenue" -> (base_rate * exposure_value) \div 100
      [] branch = "payroll" -> (base_rate * exposure_value) \div 10
      [] branch = "vehicle" -> base_rate * exposure_value * 10
      [] OTHER -> (exposure_value * base_rate) \div 10

\* C29: for every rate_basis the pre-minimum premium applies base_rate once
\* to the exposure_value stored on the line item: rate * exposure / 1000
\* (revenue branch), / 100 (payroll), rate * exposure (vehicle),
\* exposure * rate / 100 (insured-value branch).
C29_RateAppliedOnceToRecordedExposure ==
    LineItemCallDone =>
        LET branch == BasisBranch(Lower(call.rate.rate_basis))
        IN  branch # "default" =>
                CalculatedPremium(call.rate, call.exposures) =
                    OncePremium(branch, call.rate.base_rate,
                                call.result.exposure_value)

\* ---- the retried LLM call ----

GenerateJsonCallDone == call.fn = "generate_json" /\ call.done

\* the attempts among the first five that would return
Succeeding(outcomes) == {i \in 1..5 : outcomes[i].kind = "ok"}

\* C30: a generate_json call sends at most five requests; it returns the
\* parsed object of the first attempt that succeeds, and when five
\* consecutive attempts fail it stops and raises to the caller.
C30_AtMostFiveAttempts ==
    GenerateJsonCallDone =>
        LET ok == Succeeding(call.outcomes)
        IN  /\ call.result.requests <= 5
            /\ ok # {} =>
                  LET first == CHOOSE i \in ok : \A j \in ok : i <= j
                  IN  /\ ~call.result.raised
                      /\ call.result.value = call.outcomes[first].value
                      /\ call.result.requests = first
            /\ ok = {} =>
                  /\ call.result.raised
                  /\ call.result.requests = 5

\* five failures, and a sixth attempt that would have succeeded is never made
C30_Witness ==
    /\ GenerateJsonCallDone
    /\ Succeeding(call.outcomes) = {}
    /\ call.outcomes[6].kind = "ok"
    /\ call.result.raised
    /\ call.result.requests = 5

====
